---- MODULE Spec2Model ----
(***************************************************************************)
(* A model of gh-stats (src/src/lib.rs, src/src/main.rs): the paginated,  *)
(* concurrent fetch of two GitHub search queries (prs_from_search under   *)
(* try_join!), the per-repository aggregation (count_by_pr, pr_stats) and *)
(* the rendering of the report (report, Display for PRStats).             *)
(***************************************************************************)
EXTENDS Integers, Sequences, FiniteSets, TLC

(***************************************************************************)
(* Bounds of the model.                                                    *)
(***************************************************************************)
\* Largest number of items the server puts in one page of a response.
MaxItems == 1

\* Largest total_count enumerated by the page-arithmetic specification.
MaxTotal == 320

\* Largest approved and not_approved count of the rendering specification,
\* and the largest value of the smaller of the two counts.
MaxCount == 200

MaxMinor == 10

(***************************************************************************)
(* IEEE-754 binary32 arithmetic, as far as lib.rs uses it: `as f32` of an  *)
(* unsigned integer, `/`, `.ceil()` and the `{:.2}` formatting.  An f32    *)
(* has a 24 bit significand; every operation rounds to nearest, ties to    *)
(* even.                                                                   *)
(***************************************************************************)
Pow2(n) == 2 ^ n

\* num / den rounded to the nearest integer, ties to the even one.
RoundHalfEven(num, den) ==
    LET q == num \div den
        r == num % den
    IN  IF 2 * r > den \/ (2 * r = den /\ q % 2 = 1) THEN q + 1 ELSE q

\* `n as f32` for an unsigned integer n: exact below 2^24, else rounded to
\* the 24 significant bits that an f32 holds.
F32FromInt(n) ==
    IF n < Pow2(24) THEN n
    ELSE LET e == CHOOSE i \in 1..7 : Pow2(23 + i) <= n /\ n \div Pow2(i) < Pow2(24)
         IN  RoundHalfEven(n, Pow2(e)) * Pow2(e)

\* ceil(num / den) for num >= 0, den > 0.
CeilDiv(num, den) == (num + den - 1) \div den

\* The binary exponent k of x / d (0 < x, 0 < d < 2^30):
\* 2^k <= x / d < 2^(k+1).
F32Exponent(x, d) ==
    CHOOSE k \in -30..24 :
        IF k >= 0
        THEN Pow2(k) <= x \div d /\ x \div d < Pow2(k + 1)
        ELSE x < d /\ CeilDiv(d, Pow2(-k)) <= x /\ x < CeilDiv(d, Pow2(-k - 1))

\* <<quotient, remainder>> of (x * 2^s) by d, by long division.
RECURSIVE ScaledDiv(_, _, _)
ScaledDiv(x, d, s) ==
    IF s = 0 THEN <<x \div d, x % d>>
    ELSE LET p == ScaledDiv(x, d, s - 1)
         IN  <<2 * p[1] + (2 * p[2]) \div d, (2 * p[2]) % d>>

\* The f32 quotient x / d of two f32 values that hold the integers x >= 0 and
\* d > 0, as the pair <<m, e>> of the value m * 2^e (m the 24 bit significand).
F32Div(x, d) ==
    IF x = 0 THEN <<0, 0>>
    ELSE LET k == F32Exponent(x, d)
         IN  IF k <= 23
             THEN LET qr == ScaledDiv(x, d, 23 - k)
                  IN  <<IF 2 * qr[2] > d \/ (2 * qr[2] = d /\ qr[1] % 2 = 1)
                        THEN qr[1] + 1 ELSE qr[1],
                        k - 23>>
             ELSE <<RoundHalfEven(x, d * Pow2(k - 23)), k - 23>>

\* f32::ceil of the value m * 2^e, as an integer.
F32Ceil(v) ==
    IF v[2] >= 0 THEN v[1] * Pow2(v[2])
    ELSE (v[1] + Pow2(-v[2]) - 1) \div Pow2(-v[2])

\* `{:.2}` of the f32 value m * 2^e (0 <= value <= 1): its exact decimal
\* expansion rounded to hundredths, ties to even, as a number of hundredths.
F32Hundredths(v) ==
    IF v[2] >= 0 THEN 100 * v[1] * Pow2(v[2])
    ELSE IF -v[2] <= 30 THEN RoundHalfEven(100 * v[1], Pow2(-v[2]))
    ELSE LET low == Pow2(-v[2] - 30)
             hi == (100 * v[1]) \div low
             sticky == (100 * v[1]) % low # 0
             q == hi \div Pow2(30)
             r == hi % Pow2(30)
         IN  IF r > Pow2(29) \/ (r = Pow2(29) /\ (sticky \/ q % 2 = 1))
             THEN q + 1 ELSE q

\* num_pages of prs_from_search:
\*   (resp.total_count as f32 / per_page as f32).ceil() as u32
PerPage == 100

NumPages(total_count) ==
    F32Ceil(F32Div(F32FromInt(total_count), F32FromInt(PerPage)))

\* A variant of Rate that refuses a zero denominator with an error, as a
\* checked division would.
RateChecked(approved, not_approved) ==
    IF approved + not_approved = 0
    THEN [res |-> "Err", nan |-> FALSE, hundredths |-> 0]
    ELSE LET v == F32Div(F32FromInt(approved), F32FromInt(approved + not_approved))
         IN  [res |-> "Ok", nan |-> FALSE,
              hundredths |-> F32Hundredths(v)]

\* A variant of Rate that divides not_approved by the total.
RateOfNotApproved(approved, not_approved) ==
    IF approved + not_approved = 0
    THEN [res |-> "Ok", nan |-> TRUE, hundredths |-> 0]
    ELSE LET v == F32Div(F32FromInt(not_approved), F32FromInt(approved + not_approved))
         IN  [res |-> "Ok", nan |-> FALSE, hundredths |-> F32Hundredths(v)]

\* `{:.2}` of (approved as f32 / (approved + not_approved) as f32): the
\* quotient is NaN for 0.0 / 0.0, which Display renders as "NaN"; any other
\* value is rendered by its exact decimal expansion rounded to hundredths,
\* ties to even.  fmt itself never returns Err.
Rate(approved, not_approved) ==
    IF approved + not_approved = 0
    THEN [res |-> "Ok", nan |-> TRUE, hundredths |-> 0]
    ELSE LET v == F32Div(F32FromInt(approved), F32FromInt(approved + not_approved))
         IN  [res |-> "Ok", nan |-> FALSE,
              hundredths |-> F32Hundredths(v)]

(***************************************************************************)
(* The world outside the program: the two search queries, the repository   *)
(* identifiers and what the server may answer to one page request.         *)
(***************************************************************************)
\* The two queries of pr_stats.
Queries == {"approved", "not_approved"}

Other(q) == IF q = "approved" THEN "not_approved" ELSE "approved"

\* repository_url values, as byte strings: <<1, 2>> sorts before <<2>>.
Repos == {<<1, 2>>, <<2>>}

\* The item lists (repository_url of each item) one page may carry.
ItemLists == UNION {[1..n -> Repos] : n \in 0..MaxItems}

\* The total_count values the server declares: no page, 2 and 3 pages.
TotalCounts == {0, 101, 250}

\* A total_count above 2^24, which `as f32` cannot hold exactly.
HugeTotal == Pow2(24) + 85

\* HTTP statuses: 200 OK, and 403 as sent when the rate limit is hit.
Statuses == {200, 403}

\* What comes back for a request: send() fails (no response), or a response
\* with a status and a body that either is or is not JSON of a PRList.
TransportFailure ==
    [send |-> "Err", status |-> 0, body |-> "bad", total_count |-> 0, items |-> <<>>]

BadBody(st) ==
    [send |-> "Ok", status |-> st, body |-> "bad", total_count |-> 0, items |-> <<>>]

Page(st, t, its) ==
    [send |-> "Ok", status |-> st, body |-> "PRList", total_count |-> t, items |-> its]

Responses ==
    {TransportFailure}
      \cup {BadBody(st) : st \in Statuses}
      \cup {Page(st, t, its) : st \in Statuses, t \in TotalCounts, its \in ItemLists}

\* The responses of the page-arithmetic specification: successful, empty
\* pages declaring every total_count up to MaxTotal, and HugeTotal.
PageCountResponses ==
    {Page(200, t, <<>>) : t \in (0..MaxTotal) \cup {HugeTotal}}

(***************************************************************************)
(* The state of one run of main.                                           *)
(***************************************************************************)
VARIABLES
    pc,          \* where main is: "start", "fetch" (inside try_join!),
                 \* "report" (the loop of report), "done", "panic" (unwrap)
    qstate,      \* per query, where its prs_from_search future is: "init",
                 \* "page1" (awaiting page 1), "paging" (in the join_next
                 \* loop), "ok", "err", "dropped" (dropped by try_join!)
    requests,    \* per query, the page numbers of the GETs sent, in order
    tasks,       \* per query, paged_res: page |-> "inflight", "joined",
                 \* "failed" or "aborted"
    all,         \* per query, the Vec `all` (kept as the result of the query
                 \* after prs_from_search has returned Ok)
    first_total, \* per query, resp.total_count of page 1 (-1: not received)
    resp_total,  \* per query, total_count of the `resp` decoded last, while
                 \* prs_from_search runs (-1: none, or the future is gone)
    err,         \* per query, the error its future returned ("none": none)
    served,      \* per query and repository, the number of items in the
                 \* pages the server delivered as decodable PRLists
    combined,    \* the StatsMap of pr_stats: repo |-> PRStats
    iter,        \* the sorted iterator of report: the keys still to print
    tot_stats,   \* tot_stats of report
    output,      \* the lines printed to stdout, in order
    failure      \* the error main unwrapped ("none": none)

vars == <<pc, qstate, requests, tasks, all, first_total, resp_total, err, served,
          combined, iter, tot_stats, output, failure>>

\* The empty map.
EmptyMap == [k \in {} |-> 0]

\* PRStats::new and PRStats::new_with.
PRStatsNew == [approved |-> 0, not_approved |-> 0]

PRStatsNewWith(a, n) == [approved |-> a, not_approved |-> n]

Init ==
    /\ pc = "start"
    /\ qstate = [q \in Queries |-> "init"]
    /\ requests = [q \in Queries |-> <<>>]
    /\ tasks = [q \in Queries |-> EmptyMap]
    /\ all = [q \in Queries |-> <<>>]
    /\ first_total = [q \in Queries |-> -1]
    /\ resp_total = [q \in Queries |-> -1]
    /\ err = [q \in Queries |-> "none"]
    /\ served = [q \in Queries |-> [r \in Repos |-> 0]]
    /\ combined = EmptyMap
    /\ iter = <<>>
    /\ tot_stats = PRStatsNew
    /\ output = <<>>
    /\ failure = "none"

(***************************************************************************)
(* pr_stats up to try_join!: make_client, then the first poll of both      *)
(* futures, each of which sends its GET for page 1.                        *)
(***************************************************************************)
\* search_url(query, page): the request is identified by its page number.
SearchUrl(page) == page

\* A variant of PrStatsStart that sends the request of page 2 along with
\* that of page 1.
PrStatsStartPrefetch ==
    /\ pc = "start"
    /\ pc' = "fetch"
    /\ qstate' = [q \in Queries |-> "page1"]
    /\ requests' = [q \in Queries |-> <<SearchUrl(1), SearchUrl(2)>>]
    /\ UNCHANGED <<tasks, all, first_total, resp_total, err, served, combined,
                   iter, tot_stats, output, failure>>

PrStatsStart ==
    /\ pc = "start"
    /\ \E token_ok \in BOOLEAN :
         IF token_ok
         THEN /\ pc' = "fetch"
              /\ qstate' = [q \in Queries |-> "page1"]
              /\ requests' = [q \in Queries |-> <<SearchUrl(1)>>]
              /\ failure' = failure
         ELSE \* HeaderValue::from_str rejects GITHUB_TOKEN: make_client()?
              /\ pc' = "panic"
              /\ failure' = "InvalidHeaderValue"
              /\ UNCHANGED <<qstate, requests>>
    /\ UNCHANGED <<tasks, all, first_total, resp_total, err, served, combined,
                   iter, tot_stats, output>>

(***************************************************************************)
(* prs_from_search.                                                        *)
(***************************************************************************)
\* What `.send().await?` and `.json().await?` make of a response: the error
\* of the failing `?`, or "none".  The status of a response is not looked at
\* (there is no error_for_status): a body is decoded whatever its status.
ErrorOf(r) ==
    IF r.send = "Err" THEN "TransportError"
    ELSE IF r.body = "bad" THEN "DecodeError"
    ELSE "none"

\* A variant of Extend that keeps only the page decoded last.
ExtendReplace(v, items) == items

\* A variant of Extend that keeps the items of the first page that has any.
ExtendFirstOnly(v, items) == IF v = <<>> THEN items ELSE v

\* all.extend(resp.items)
Extend(v, items) == v \o items

\* The requests of `(2..=num_pages).map(|page| client.get(search_url(..)).send())`.
PageRequests(num_pages) ==
    [i \in 1..(num_pages - 1) |-> SearchUrl(i + 1)]

\* A variant of SpawnPages that always fetches page 2.
SpawnAtLeastOne(num_pages) ==
    [p \in 2..(IF num_pages < 2 THEN 2 ELSE num_pages) |-> "inflight"]

\* paged_res right after `.collect()`: one spawned task per page 2..=num_pages.
SpawnPages(num_pages) == [p \in 2..num_pages |-> "inflight"]

\* A variant of AbortAll for detached tasks: dropping the set leaves them
\* running.
AbortNone(ts) == ts

\* Dropping a JoinSet aborts every task still in it.
AbortAll(ts) ==
    [p \in DOMAIN ts |-> IF ts[p] = "inflight" THEN "aborted" ELSE ts[p]]

\* The ghost count of the items the server delivered.
Delivered(count, items) ==
    [r \in Repos |-> count[r] + Cardinality({i \in DOMAIN items : items[i] = r})]

\* No task of paged_res is left: join_next() returns None.
JoinSetEmpty(ts) == \A p \in DOMAIN ts : ts[p] # "inflight"

\* A variant of Fail that skips the page that failed and carries on with
\* the pages that are left.
FailSkip(q, p, kind) ==
    LET left == IF p \in DOMAIN tasks[q]
                THEN [tasks[q] EXCEPT ![p] = "failed"] ELSE tasks[q]
    IN  /\ tasks' = [tasks EXCEPT ![q] = left]
        /\ qstate' = [qstate EXCEPT ![q] =
                        IF JoinSetEmpty(left) THEN "ok" ELSE "paging"]
        /\ UNCHANGED <<pc, requests, all, first_total, resp_total, err, served,
                       combined, iter, tot_stats, output, failure>>

\* A variant of Fail that sends the request of the failed page once more.
FailRetry(q, p, kind) ==
    /\ requests' = [requests EXCEPT ![q] = Append(@, SearchUrl(p))]
    /\ UNCHANGED <<pc, qstate, tasks, all, first_total, resp_total, err, served,
                   combined, iter, tot_stats, output, failure>>

\* A variant of Fail that leaves the future of the other query alone.
FailLeaveOther(q, p, kind) ==
    /\ qstate' = [qstate EXCEPT ![q] = "err"]
    /\ err' = [err EXCEPT ![q] = kind]
    /\ tasks' = [tasks EXCEPT ![q] =
                    AbortAll(IF p \in DOMAIN tasks[q]
                             THEN [tasks[q] EXCEPT ![p] = "failed"]
                             ELSE tasks[q])]
    /\ all' = [all EXCEPT ![q] = <<>>]
    /\ pc' = "panic"
    /\ failure' = kind
    /\ resp_total' = [resp_total EXCEPT ![q] = -1]
    /\ UNCHANGED <<requests, first_total, served, combined, iter, tot_stats, output>>

\* A `?` of query q returns Err(kind) from prs_from_search while page p was
\* being fetched.  The Vec and the JoinSet of q are dropped; in the same poll
\* try_join! returns the error and drops the other future (its page-1
\* request or its JoinSet, and a result it may hold), pr_stats and report
\* return it with `?`, and main panics in unwrap().
Fail(q, p, kind) ==
    /\ qstate' = [x \in Queries |->
                    IF x = q THEN "err"
                    ELSE IF qstate[x] \in {"page1", "paging"} THEN "dropped"
                    ELSE qstate[x]]
    /\ err' = [err EXCEPT ![q] = kind]
    /\ tasks' = [x \in Queries |->
                    AbortAll(IF x = q /\ p \in DOMAIN tasks[q]
                             THEN [tasks[q] EXCEPT ![p] = "failed"]
                             ELSE tasks[x])]
    /\ all' = [x \in Queries |-> <<>>]
    /\ pc' = "panic"
    /\ failure' = kind
    /\ resp_total' = [x \in Queries |-> -1]
    /\ UNCHANGED <<requests, first_total, served, combined, iter, tot_stats, output>>

\* Lines 33-47 (and 49, 53 when no page is left): the response r to the
\* page-1 request of query q arrives.
RecvPage1(q, r) ==
    /\ pc = "fetch"
    /\ qstate[q] = "page1"
    /\ IF ErrorOf(r) # "none"
       THEN Fail(q, 1, ErrorOf(r))
       ELSE LET num_pages == NumPages(r.total_count)
            IN  /\ all' = [all EXCEPT ![q] = Extend(@, r.items)]
                /\ first_total' = [first_total EXCEPT ![q] = r.total_count]
                /\ resp_total' = [resp_total EXCEPT ![q] =
                                    IF JoinSetEmpty(SpawnPages(num_pages))
                                    THEN -1 ELSE r.total_count]
                /\ served' = [served EXCEPT ![q] = Delivered(@, r.items)]
                /\ requests' = [requests EXCEPT ![q] = @ \o PageRequests(num_pages)]
                /\ tasks' = [tasks EXCEPT ![q] = SpawnPages(num_pages)]
                /\ qstate' = [qstate EXCEPT ![q] =
                                IF JoinSetEmpty(SpawnPages(num_pages))
                                THEN "ok" ELSE "paging"]
                /\ UNCHANGED <<pc, err, combined, iter, tot_stats, output, failure>>

\* A variant of JoinNext that joins the task and discards its items.
JoinNextDiscard(q, p, r) ==
    /\ pc = "fetch"
    /\ qstate[q] = "paging"
    /\ p \in DOMAIN tasks[q]
    /\ tasks[q][p] = "inflight"
    /\ IF ErrorOf(r) # "none"
       THEN Fail(q, p, ErrorOf(r))
       ELSE LET left == [tasks[q] EXCEPT ![p] = "joined"]
            IN  /\ resp_total' = [resp_total EXCEPT ![q] =
                                    IF JoinSetEmpty(left) THEN -1 ELSE r.total_count]
                /\ served' = [served EXCEPT ![q] = Delivered(@, r.items)]
                /\ tasks' = [tasks EXCEPT ![q] = left]
                /\ qstate' = [qstate EXCEPT ![q] =
                                IF JoinSetEmpty(left) THEN "ok" ELSE "paging"]
                /\ UNCHANGED <<pc, requests, all, first_total, err, combined, iter,
                               tot_stats, output, failure>>

\* A variant of JoinNext that checks the total_count of every later page
\* against that of page 1 and fails on a mismatch.
JoinNextValidate(q, p, r) ==
    /\ pc = "fetch"
    /\ qstate[q] = "paging"
    /\ p \in DOMAIN tasks[q]
    /\ tasks[q][p] = "inflight"
    /\ IF ErrorOf(r) # "none"
       THEN Fail(q, p, ErrorOf(r))
       ELSE IF r.total_count # first_total[q]
       THEN Fail(q, p, "DecodeError")
       ELSE LET left == [tasks[q] EXCEPT ![p] = "joined"]
            IN  /\ all' = [all EXCEPT ![q] = Extend(@, r.items)]
                /\ resp_total' = [resp_total EXCEPT ![q] =
                                    IF JoinSetEmpty(left) THEN -1 ELSE r.total_count]
                /\ served' = [served EXCEPT ![q] = Delivered(@, r.items)]
                /\ tasks' = [tasks EXCEPT ![q] = left]
                /\ qstate' = [qstate EXCEPT ![q] =
                                IF JoinSetEmpty(left) THEN "ok" ELSE "paging"]
                /\ UNCHANGED <<pc, requests, first_total, err, combined, iter,
                               tot_stats, output, failure>>

\* Lines 49-53: join_next() yields the task of page p of query q, whose
\* request got the response r.  The first `?` of `res??` (a JoinError) never
\* fires: no task is aborted while the loop runs and send() does not panic.
JoinNext(q, p, r) ==
    /\ pc = "fetch"
    /\ qstate[q] = "paging"
    /\ p \in DOMAIN tasks[q]
    /\ tasks[q][p] = "inflight"
    /\ IF ErrorOf(r) # "none"
       THEN Fail(q, p, ErrorOf(r))
       ELSE LET left == [tasks[q] EXCEPT ![p] = "joined"]
            IN  /\ all' = [all EXCEPT ![q] = Extend(@, r.items)]
                /\ resp_total' = [resp_total EXCEPT ![q] =
                                    IF JoinSetEmpty(left) THEN -1 ELSE r.total_count]
                /\ served' = [served EXCEPT ![q] = Delivered(@, r.items)]
                /\ tasks' = [tasks EXCEPT ![q] = left]
                /\ qstate' = [qstate EXCEPT ![q] =
                                IF JoinSetEmpty(left) THEN "ok" ELSE "paging"]
                /\ UNCHANGED <<pc, requests, first_total, err, combined, iter,
                               tot_stats, output, failure>>

(***************************************************************************)
(* count_by_pr and the rest of pr_stats.                                   *)
(***************************************************************************)
\* A variant of CountByPr that records each repository once.
CountDistinct(prs) ==
    [k \in {prs[i] : i \in DOMAIN prs} |-> 1]

\* prs.iter().map(|pr| pr.repository_url.as_str()).counts()
CountByPr(prs) ==
    [k \in {prs[i] : i \in DOMAIN prs} |-> Cardinality({i \in DOMAIN prs : prs[i] = k})]

\* A variant of GetOr0 that never finds the key.
GetAlways0(m, k) == 0

\* *m.get(k).unwrap_or(&0)
GetOr0(m, k) == IF k \in DOMAIN m THEN m[k] ELSE 0

\* A variant of OrInsertWith that adds v to an entry already present.
OrInsertAccumulate(m, k, v) ==
    IF k \in DOMAIN m
    THEN [m EXCEPT ![k] = [approved |-> @.approved + v.approved,
                           not_approved |-> @.not_approved + v.not_approved]]
    ELSE [x \in DOMAIN m \cup {k} |-> IF x = k THEN v ELSE m[x]]

\* m.entry(k).or_insert_with(|| v)
OrInsertWith(m, k, v) ==
    IF k \in DOMAIN m THEN m
    ELSE [x \in DOMAIN m \cup {k} |-> IF x = k THEN v ELSE m[x]]

\* The orders in which a HashMap may yield its keys: every enumeration of
\* the key set without repetition.
KeyOrders(m) ==
    {s \in [1..Cardinality(DOMAIN m) -> DOMAIN m] :
        \A i, j \in DOMAIN s : i # j => s[i] # s[j]}

\* The loop of lines 119-125 over the chained keys `keys`.
RECURSIVE CombineLoop(_, _, _, _)
CombineLoop(keys, prs_approved, prs_not_approved, m) ==
    IF keys = <<>> THEN m
    ELSE CombineLoop(Tail(keys), prs_approved, prs_not_approved,
             OrInsertWith(m, Head(keys),
                 PRStatsNewWith(GetOr0(prs_approved, Head(keys)),
                                GetOr0(prs_not_approved, Head(keys)))))

(***************************************************************************)
(* report: Display for PRStats, update_from and the sorted iteration.      *)
(***************************************************************************)
\* Byte-wise lexicographic order of two strings (Ord for String).
RECURSIVE LexLess(_, _)
LexLess(a, b) ==
    IF b = <<>> THEN FALSE
    ELSE IF a = <<>> THEN TRUE
    ELSE IF Head(a) # Head(b) THEN Head(a) < Head(b)
    ELSE LexLess(Tail(a), Tail(b))

\* A variant of SortedByKey that yields the keys in descending order.
SortedDescending(m) ==
    CHOOSE s \in KeyOrders(m) :
        \A i, j \in DOMAIN s : i < j => LexLess(s[j], s[i])

\* combined.iter().sorted_by_key(|a| a.0): the keys in ascending order.
SortedByKey(m) ==
    CHOOSE s \in KeyOrders(m) :
        \A i, j \in DOMAIN s : i < j => LexLess(s[i], s[j])

\* A variant of UpdateFrom that leaves not_approved alone.
UpdateApprovedOnly(self, other) ==
    [approved |-> self.approved + other.approved,
     not_approved |-> self.not_approved]

\* PRStats::update_from
UpdateFrom(self, other) ==
    [approved |-> self.approved + other.approved,
     not_approved |-> self.not_approved + other.not_approved]

\* Display for PRStats: "total: {}, approved: {}, not approved: {}, rate: {:.2}".
Display(stats) ==
    LET rate == Rate(stats.approved, stats.not_approved)
    IN  [res |-> rate.res,
         total |-> stats.approved + stats.not_approved,
         approved |-> stats.approved,
         not_approved |-> stats.not_approved,
         nan |-> rate.nan,
         hundredths |-> rate.hundredths]

\* One printed line: "{repo}: {stats}" or "Total: {tot_stats}".
Line(label, repo, stats) == [label |-> label, repo |-> repo, text |-> Display(stats)]

\* A variant of PrStatsReturn that returns once either future is Ok.
PrStatsReturnEither ==
    /\ pc = "fetch"
    /\ \E q \in Queries : qstate[q] = "ok"
    /\ LET prs_approved == CountByPr(all["approved"])
           prs_not_approved == CountByPr(all["not_approved"])
       IN  \E ka \in KeyOrders(prs_approved), kn \in KeyOrders(prs_not_approved) :
             LET m == CombineLoop(ka \o kn, prs_approved, prs_not_approved, EmptyMap)
             IN  /\ combined' = m
                 /\ iter' = SortedByKey(m)
    /\ tot_stats' = PRStatsNew
    /\ pc' = "report"
    /\ UNCHANGED <<qstate, requests, tasks, all, first_total, resp_total, err,
                   served, output, failure>>

\* Lines 109-126 and 130-132: both futures of try_join! are Ok; the counts
\* are combined, pr_stats returns, and report sorts the map.
PrStatsReturn ==
    /\ pc = "fetch"
    /\ \A q \in Queries : qstate[q] = "ok"
    /\ LET prs_approved == CountByPr(all["approved"])
           prs_not_approved == CountByPr(all["not_approved"])
       IN  \E ka \in KeyOrders(prs_approved), kn \in KeyOrders(prs_not_approved) :
             LET m == CombineLoop(ka \o kn, prs_approved, prs_not_approved, EmptyMap)
             IN  /\ combined' = m
                 /\ iter' = SortedByKey(m)
    /\ tot_stats' = PRStatsNew
    /\ pc' = "report"
    /\ UNCHANGED <<qstate, requests, tasks, all, first_total, resp_total, err,
                   served, output, failure>>

\* Lines 132-137: one iteration of the loop of report.  println! panics when
\* the Display implementation returns an error.
PrintRepo ==
    /\ pc = "report"
    /\ iter # <<>>
    /\ LET repo == Head(iter)
           stats == combined[repo]
       IN  IF Display(stats).res = "Ok"
           THEN /\ output' = Append(output, Line("repo", repo, stats))
                /\ tot_stats' = UpdateFrom(tot_stats, stats)
                /\ iter' = Tail(iter)
                /\ UNCHANGED <<pc, failure>>
           ELSE /\ pc' = "panic"
                /\ failure' = "fmt::Error"
                /\ UNCHANGED <<output, tot_stats, iter>>
    /\ UNCHANGED <<qstate, requests, tasks, all, first_total, resp_total, err,
                   served, combined>>

\* Lines 138-139: the Total line, and Ok(()).
PrintTotal ==
    /\ pc = "report"
    /\ iter = <<>>
    /\ IF Display(tot_stats).res = "Ok"
       THEN /\ output' = Append(output, Line("Total", <<>>, tot_stats))
            /\ pc' = "done"
            /\ UNCHANGED failure
       ELSE /\ pc' = "panic"
            /\ failure' = "fmt::Error"
            /\ UNCHANGED output
    /\ UNCHANGED <<qstate, requests, tasks, all, first_total, resp_total, err,
                   served, combined, iter, tot_stats>>

(***************************************************************************)
(* The specifications.                                                     *)
(***************************************************************************)
RecvFirst == \E q \in Queries, r \in Responses : RecvPage1(q, r)

RecvLater == \E q \in Queries, r \in Responses : \E p \in DOMAIN tasks[q] : JoinNext(q, p, r)

Next ==
    \/ PrStatsStart
    \/ RecvFirst
    \/ RecvLater
    \/ PrStatsReturn
    \/ PrintRepo
    \/ PrintTotal

Spec == Init /\ [][Next]_vars

\* The page arithmetic of prs_from_search on its own: the program up to the
\* fan-out of the query whose page 1 arrives first, with page-1 responses
\* declaring every total_count of PageCountResponses.
RecvFirstCount == \E r \in PageCountResponses : RecvPage1("approved", r)

PagesNext ==
    \/ PrStatsStart
    \/ RecvFirstCount

PagesSpec == Init /\ [][PagesNext]_vars

\* Counting and rendering on their own: both queries have returned Ok, each
\* with any number 0..MaxCount of records of one repository (served in pages
\* of PerPage items whose total_count is that number), at least one record
\* in all and at most MaxMinor records in the shorter list; pr_stats counts
\* and combines them and report prints the result.
RenderRepo == <<2>>

RenderRecords(count) == [i \in 1..count |-> RenderRepo]

RenderInit ==
    /\ pc = "fetch"
    /\ qstate = [q \in Queries |-> "ok"]
    /\ \E a \in 0..MaxCount, n \in 0..MaxCount :
          /\ a + n >= 1
          /\ (a <= MaxMinor \/ n <= MaxMinor)
          /\ first_total = [q \in Queries |-> IF q = "approved" THEN a ELSE n]
    /\ requests = [q \in Queries |->
                     <<SearchUrl(1)>> \o PageRequests(NumPages(first_total[q]))]
    /\ tasks = [q \in Queries |->
                  [p \in 2..NumPages(first_total[q]) |-> "joined"]]
    /\ all = [q \in Queries |-> RenderRecords(first_total[q])]
    /\ resp_total = [q \in Queries |-> -1]
    /\ err = [q \in Queries |-> "none"]
    /\ served = [q \in Queries |->
                   [r \in Repos |-> IF r = RenderRepo THEN first_total[q] ELSE 0]]
    /\ combined = EmptyMap
    /\ iter = <<>>
    /\ tot_stats = PRStatsNew
    /\ output = <<>>
    /\ failure = "none"

RenderNext ==
    \/ PrStatsReturn
    \/ PrintRepo
    \/ PrintTotal

RenderSpec == RenderInit /\ [][RenderNext]_vars

\* The program under fair scheduling, up to the return of pr_stats: the
\* current_thread runtime keeps polling the task of main while it can make
\* progress (PrStatsStart, PrStatsReturn), and the response to a request
\* that is awaited eventually arrives (RecvFirst, RecvLater).
LiveSpec ==
    /\ Spec
    /\ WF_vars(PrStatsStart)
    /\ WF_vars(RecvFirst)
    /\ WF_vars(RecvLater)
    /\ WF_vars(PrStatsReturn)

(***************************************************************************)
(* Helpers of the properties.                                              *)
(***************************************************************************)
\* The number of occurrences of repository r in the sequence v.
Occurrences(v, r) == Cardinality({i \in DOMAIN v : v[i] = r})

\* ceil(t / PerPage) in exact integer arithmetic.
ExactPages(t) == (t + PerPage - 1) \div PerPage

\* The page numbers of seq, without order.
PageSet(seq) == {seq[i] : i \in DOMAIN seq}

\* No page number occurs twice in seq.
NoRepeat(seq) == \A i, j \in DOMAIN seq : i # j => seq[i] # seq[j]

\* Query q has received and decoded its page 1.
PastPage1(q) == first_total[q] >= 0 /\ qstate[q] \in {"paging", "ok"}

\* `all` of query q holds exactly the items the server delivered for q.
HoldsDelivered(q) == \A r \in Repos : Occurrences(all[q], r) = served[q][r]

\* The responses that make a fetch fail.
FailingResponses == {r \in Responses : ErrorOf(r) # "none"}

\* The step is one in which the fetch of a page of query q fails with the
\* response r (no response, or a body that does not decode).
FetchFails(q, r) ==
    /\ ErrorOf(r) # "none"
    /\ \/ RecvPage1(q, r)
       \/ \E p \in DOMAIN tasks[q] : JoinNext(q, p, r)

\* A status of the 2xx class.
IsSuccess(status) == 200 <= status /\ status <= 299

\* The step is one in which a response r with a non-2xx status arrives for a
\* page of query q.
Non2xxArrives(q, r) ==
    /\ r.send = "Ok"
    /\ ~IsSuccess(r.status)
    /\ \/ RecvPage1(q, r)
       \/ \E p \in DOMAIN tasks[q] : JoinNext(q, p, r)

(***************************************************************************)
(* C1.  For every total_count T declared by page 1, a query issues exactly *)
(* max(1, ceil(T / 100)) page requests, the pages 1..ceil(T / 100), none   *)
(* twice, and the list returned is as long as the items of these pages     *)
(* taken together.  Checked under PagesSpec: it fails for T = 2^24 + 85,   *)
(* which `as f32` rounds down to a multiple of 100.                        *)
(***************************************************************************)
C1_ExactPageRequests ==
    \A q \in Queries :
        PastPage1(q) =>
            LET n == IF ExactPages(first_total[q]) < 1 THEN 1
                     ELSE ExactPages(first_total[q])
            IN  /\ Len(requests[q]) = n
                /\ PageSet(requests[q]) = 1..n
                /\ (qstate[q] = "ok" /\ pc # "panic" =>
                      Len(all[q]) = served[q][<<1, 2>>] + served[q][<<2>>])

(***************************************************************************)
(* C2.  Original statement: a query whose page 1 declares total_count = 0  *)
(* issues exactly one request and returns an empty sequence.               *)
(***************************************************************************)
C2_ZeroTotalEmpty ==
    \A q \in Queries :
        (qstate[q] = "ok" /\ first_total[q] = 0 /\ pc # "panic") =>
            /\ requests[q] = <<1>>
            /\ all[q] = <<>>

(***************************************************************************)
(* C2, amended.  A query whose page 1 declares total_count = 0 issues      *)
(* exactly one request, spawns no page fetch, and returns exactly the      *)
(* items of that page-1 response: at most MaxItems of them, and none when  *)
(* the page carries none.                                                  *)
(***************************************************************************)
C2_ZeroTotalOneRequest ==
    \A q \in Queries :
        (qstate[q] = "ok" /\ first_total[q] = 0 /\ pc # "panic") =>
            /\ requests[q] = <<1>>
            /\ DOMAIN tasks[q] = {}
            /\ HoldsDelivered(q)
            /\ Len(all[q]) <= MaxItems

C2_Witness ==
    \E q \in Queries :
        /\ qstate[q] = "ok"
        /\ first_total[q] = 0
        /\ pc = "fetch"
        /\ all[q] = <<>>
        /\ qstate[Other(q)] = "paging"

(***************************************************************************)
(* C3.  Fail-fast: a step in which the fetch of a page of query q fails    *)
(* (page 1 or a later page, whatever has completed before) makes           *)
(* prs_from_search return that error, with the items collected so far      *)
(* dropped; and a query that returned Ok has joined every page it          *)
(* requested and holds the items of all of them.                           *)
(***************************************************************************)
C3_FailFast ==
    /\ [](\A q \in Queries :
            (qstate[q] = "ok" /\ pc # "panic") =>
                /\ err[q] = "none"
                /\ \A p \in DOMAIN tasks[q] : tasks[q][p] = "joined"
                /\ DOMAIN tasks[q] = PageSet(requests[q]) \ {1}
                /\ HoldsDelivered(q))
    /\ [][\A q \in Queries, r \in FailingResponses :
            FetchFails(q, r) =>
                /\ qstate'[q] = "err"
                /\ err'[q] = ErrorOf(r)
                /\ all'[q] = <<>>
                /\ combined' = EmptyMap]_vars

C3_Witness ==
    \E q \in Queries :
        /\ qstate[q] = "err"
        /\ \E p1, p2 \in DOMAIN tasks[q] :
              tasks[q][p1] = "joined" /\ tasks[q][p2] = "failed"
        /\ \E r \in Repos : served[q][r] > 0
        /\ all[q] = <<>>

(***************************************************************************)
(* C4.  A response with a non-2xx status makes the fetch of its page, and  *)
(* so the query, fail with an ApiError; its body is never taken as a page  *)
(* of items.                                                               *)
(***************************************************************************)
C4_Non2xxIsApiError ==
    [][\A q \in Queries, r \in Responses :
          Non2xxArrives(q, r) =>
              /\ qstate'[q] = "err"
              /\ err'[q] = "ApiError"
              /\ served'[q] = served[q]]_vars

(***************************************************************************)
(* More helpers of the properties.                                         *)
(***************************************************************************)
\* pr_stats has returned Ok(combined).
Returned == pc \in {"report", "done"}

\* The sum of f[k] over the keys k of the set S.
RECURSIVE SumOver(_, _)
SumOver(S, f) ==
    IF S = {} THEN 0
    ELSE LET k == CHOOSE x \in S : TRUE
         IN  f[k] + SumOver(S \ {k}, f)

\* The repository lines of the output: the indices of the lines before Total.
RepoLines == {i \in DOMAIN output : output[i].label = "repo"}

TotalLines == {i \in DOMAIN output : output[i].label = "Total"}

(***************************************************************************)
(* C5.  The StatsMap of pr_stats has the union of the keys of the two      *)
(* count maps as its keys, and for every key k the entry                   *)
(* (A.get(k, 0), B.get(k, 0)), a key of both maps included.                *)
(***************************************************************************)
C5_CombineUnion ==
    Returned =>
        LET A == CountByPr(all["approved"])
            B == CountByPr(all["not_approved"])
        IN  /\ DOMAIN combined = DOMAIN A \cup DOMAIN B
            /\ \A k \in DOMAIN combined :
                  /\ combined[k].approved = (IF k \in DOMAIN A THEN A[k] ELSE 0)
                  /\ combined[k].not_approved = (IF k \in DOMAIN B THEN B[k] ELSE 0)

C5_Witness ==
    /\ Returned
    /\ LET A == CountByPr(all["approved"])
           B == CountByPr(all["not_approved"])
       IN  /\ DOMAIN A \cap DOMAIN B # {}
           /\ DOMAIN B \ DOMAIN A # {}
           /\ \E k \in DOMAIN A \cap DOMAIN B : A[k] = 2 /\ B[k] = 1

(***************************************************************************)
(* C6.  After a successful pr_stats, for every repository R the entry of R *)
(* counts the items of R in all pages delivered for the approved query and *)
(* for the not-approved query; a repository without an entry has no item   *)
(* in either.                                                              *)
(***************************************************************************)
C6_EndToEnd ==
    Returned =>
        \A R \in Repos :
            IF R \in DOMAIN combined
            THEN /\ combined[R].approved = served["approved"][R]
                 /\ combined[R].not_approved = served["not_approved"][R]
            ELSE /\ served["approved"][R] = 0
                 /\ served["not_approved"][R] = 0

\* Approved items [A, B] over two pages, not-approved items [A].
C6_Witness ==
    /\ pc = "done"
    /\ DOMAIN combined = Repos
    /\ combined[<<1, 2>>] = PRStatsNewWith(1, 1)
    /\ combined[<<2>>] = PRStatsNewWith(1, 0)
    /\ Len(requests["approved"]) = 2
    /\ all["approved"] = <<(<<2>>), (<<1, 2>>)>>

(***************************************************************************)
(* C7.  Nothing is printed unless both queries and all their page fetches  *)
(* succeeded; when a fetch fails, main ends with that error, which is the  *)
(* only one, nothing has been printed, and no request was sent twice.      *)
(***************************************************************************)
C7_NoPartialReport ==
    /\ (output # <<>> =>
          /\ failure = "none"
          /\ \A q \in Queries :
                /\ qstate[q] = "ok"
                /\ \A p \in DOMAIN tasks[q] : tasks[q][p] = "joined")
    /\ (pc = "panic" => output = <<>> /\ failure # "none")
    /\ \A q \in Queries :
          /\ NoRepeat(requests[q])
          /\ (qstate[q] = "err" =>
                /\ pc = "panic"
                /\ failure = err[q]
                /\ qstate[Other(q)] # "err"
                /\ \A x \in Queries : \A p \in DOMAIN tasks[x] : tasks[x][p] # "inflight")
          /\ (pc \in {"report", "done"} => qstate[q] = "ok")

C7_Witness ==
    \E q \in Queries :
        /\ pc = "panic"
        /\ qstate[q] = "err"
        /\ err[q] = "TransportError"
        /\ qstate[Other(q)] = "ok"
        /\ served[Other(q)][<<2>>] > 0
        /\ output = <<>>

(***************************************************************************)
(* C8.  report prints one line for each key of the StatsMap, in strictly   *)
(* ascending lexicographic order of the keys, and the Total line once,     *)
(* after all of them.                                                      *)
(***************************************************************************)
C8_SortedLines ==
    /\ \A i, j \in RepoLines : i < j => LexLess(output[i].repo, output[j].repo)
    /\ \A i \in RepoLines : output[i].repo \in DOMAIN combined
    /\ \A i \in TotalLines : i = Len(output) /\ pc = "done"
    /\ \A i \in TotalLines, j \in RepoLines : j < i
    /\ (pc = "done" =>
          /\ Cardinality(TotalLines) = 1
          /\ {output[i].repo : i \in RepoLines} = DOMAIN combined
          /\ Cardinality(RepoLines) = Cardinality(DOMAIN combined))

C8_Witness ==
    /\ pc = "done"
    /\ Len(output) = 3
    /\ output[1].repo = <<1, 2>>
    /\ output[2].repo = <<2>>
    /\ output[3].label = "Total"

(***************************************************************************)
(* C9.  The Total line shows the sum of approved and the sum of            *)
(* not_approved over the entries of the StatsMap, and their sum as total;  *)
(* while the loop runs, tot_stats is the sum over the lines printed.       *)
(***************************************************************************)
C9_TotalLine ==
    /\ (pc = "report" =>
          LET printed == {output[i].repo : i \in RepoLines}
          IN  /\ tot_stats.approved =
                    SumOver(printed, [k \in printed |-> combined[k].approved])
              /\ tot_stats.not_approved =
                    SumOver(printed, [k \in printed |-> combined[k].not_approved]))
    /\ (pc = "done" =>
          LET keys == DOMAIN combined
              a == SumOver(keys, [k \in keys |-> combined[k].approved])
              n == SumOver(keys, [k \in keys |-> combined[k].not_approved])
              t == output[Len(output)].text
          IN  /\ t.approved = a
              /\ t.not_approved = n
              /\ t.total = a + n)

C9_Witness ==
    /\ pc = "done"
    /\ Cardinality(DOMAIN combined) = 2
    /\ output[Len(output)].text.approved = 3
    /\ output[Len(output)].text.not_approved = 2
    /\ output[Len(output)].text.total = 5

(***************************************************************************)
(* C10.  A zero denominator does not make rendering fail: a line whose     *)
(* total is 0 shows the rate as NaN, no line of a positive total does, the *)
(* formatter never returns an error, and a run whose queries return no     *)
(* item ends Ok with the Total line "total: 0, ..., rate: NaN" printed.    *)
(***************************************************************************)
C10_ZeroDenominator ==
    /\ failure # "fmt::Error"
    /\ \A i \in DOMAIN output :
          /\ output[i].text.res = "Ok"
          /\ output[i].text.nan <=> (output[i].text.total = 0)
    /\ (Returned /\ combined = EmptyMap /\ pc = "done" =>
          /\ Len(output) = 1
          /\ output[1].label = "Total"
          /\ output[1].text.total = 0
          /\ output[1].text.nan)
    /\ (pc = "panic" => \E q \in Queries : qstate[q] = "err" \/ qstate[q] = "init")

C10_Witness ==
    /\ pc = "done"
    /\ combined = EmptyMap
    /\ \A q \in Queries : qstate[q] = "ok" /\ all[q] = <<>>
    /\ output = <<Line("Total", <<>>, PRStatsNew)>>
    /\ output[1].text.nan

(***************************************************************************)
(* C11.  Original statement: for every line of a positive total, the       *)
(* rendered rate lies in 0..1, is 0 exactly when approved = 0 and is 1     *)
(* exactly when not_approved = 0.                                          *)
(***************************************************************************)
C11_RateExact ==
    \A i \in DOMAIN output :
        output[i].text.total > 0 =>
            /\ ~output[i].text.nan
            /\ output[i].text.hundredths \in 0..100
            /\ (output[i].text.hundredths = 0 <=> output[i].text.approved = 0)
            /\ (output[i].text.hundredths = 100 <=> output[i].text.not_approved = 0)

(***************************************************************************)
(* C11, amended.  For every line of a positive total, the rendered rate    *)
(* lies in 0.00..1.00, is 0.00 whenever approved = 0 and 1.00 whenever     *)
(* not_approved = 0.  Not only then: rounding to two decimals also renders *)
(* 1/200 as 0.00 and 199/200 as 1.00.                                      *)
(***************************************************************************)
C11_RateBounds ==
    \A i \in DOMAIN output :
        output[i].text.total > 0 =>
            /\ ~output[i].text.nan
            /\ output[i].text.hundredths \in 0..100
            /\ (output[i].text.approved = 0 => output[i].text.hundredths = 0)
            /\ (output[i].text.not_approved = 0 => output[i].text.hundredths = 100)

C11_Witness ==
    /\ pc = "done"
    /\ Len(output) = 2
    /\ output[1].text.approved = 199
    /\ output[1].text.not_approved = 1
    /\ output[1].text.hundredths = 100
    /\ output[2].text.hundredths = 100

\* The number of records of repository r in v, counted record by record.
RECURSIVE Tally(_, _)
Tally(v, r) ==
    IF v = <<>> THEN 0
    ELSE (IF Head(v) = r THEN 1 ELSE 0) + Tally(Tail(v), r)

\* v with the records at positions i and i + 1 exchanged.
SwapAt(v, i) ==
    [j \in DOMAIN v |-> IF j = i THEN v[i + 1] ELSE IF j = i + 1 THEN v[i] ELSE v[j]]

(***************************************************************************)
(* C12.  For every record list a query holds, count_by_pr maps exactly the *)
(* repositories that occur in it, each to its number of occurrences, which *)
(* is at least 1; the counts sum to the length of the list; the empty list *)
(* yields the empty map and n records of one repository R yield {R: n};    *)
(* exchanging two neighbouring records (hence any reordering) leaves the   *)
(* result unchanged.                                                       *)
(***************************************************************************)
C12_CountByPr ==
    \A q \in Queries :
        LET v == all[q]
            m == CountByPr(v)
        IN  /\ DOMAIN m = {r \in Repos : Tally(v, r) > 0}
            /\ \A k \in DOMAIN m : m[k] = Tally(v, k) /\ m[k] >= 1
            /\ SumOver(DOMAIN m, m) = Len(v)
            /\ (v = <<>> => m = EmptyMap)
            /\ ((v # <<>> /\ \A i \in DOMAIN v : v[i] = v[1])
                   => m = [k \in {v[1]} |-> Len(v)])
            /\ \A i \in 1..(Len(v) - 1) : CountByPr(SwapAt(v, i)) = m

\* pr_stats has counted a list of three records of two repositories, one of
\* them twice, and a list of one record.
C12_Witness ==
    /\ pc = "report"
    /\ all["approved"] = << <<2>>, <<1, 2>>, <<2>> >>
    /\ Len(all["not_approved"]) = 1
    /\ combined[<<2>>].approved = 2
    /\ combined[<<1, 2>>].approved = 1

(***************************************************************************)
(* C13.  pr_stats is a single join of the two queries.  Whenever it has    *)
(* returned Ok, both queries are Ok without error, every page task they    *)
(* spawned has been joined and their lists hold every delivered item;      *)
(* whenever a query has failed, pr_stats has already returned that error   *)
(* (main has panicked on it); and under fair scheduling pr_stats           *)
(* eventually returns, with Ok or with an error.                           *)
(***************************************************************************)
C13_SingleJoin ==
    /\ [](Returned =>
            \A q \in Queries :
                /\ qstate[q] = "ok"
                /\ err[q] = "none"
                /\ \A p \in DOMAIN tasks[q] : tasks[q][p] = "joined"
                /\ Len(requests[q]) = 1 + Cardinality(DOMAIN tasks[q])
                /\ HoldsDelivered(q))
    /\ [](\A q \in Queries :
            qstate[q] = "err" => pc = "panic" /\ failure = err[q])
    /\ <>(Returned \/ pc = "panic")

\* pr_stats has returned Ok after joining two later pages of each query.
C13_Witness ==
    /\ pc = "report"
    /\ output = <<>>
    /\ \A q \in Queries :
          /\ DOMAIN tasks[q] = {2, 3}
          /\ \A p \in DOMAIN tasks[q] : tasks[q][p] = "joined"

(***************************************************************************)
(* C14.  When prs_from_search of a query has returned, no page task it     *)
(* spawned is in flight: after Ok every task has been joined; after an     *)
(* error exactly one task has failed (none when page 1 failed) and every   *)
(* other task has been joined or aborted.                                  *)
(***************************************************************************)
C14_StructuredConcurrency ==
    \A q \in Queries :
        /\ qstate[q] = "ok" =>
              \A p \in DOMAIN tasks[q] : tasks[q][p] = "joined"
        /\ qstate[q] = "err" =>
              /\ \A p \in DOMAIN tasks[q] :
                    tasks[q][p] \in {"joined", "failed", "aborted"}
              /\ Cardinality({p \in DOMAIN tasks[q] : tasks[q][p] = "failed"}) <= 1

\* A query has returned an error from the first page task it joined while
\* another of its page tasks was in flight.
C14_Witness ==
    \E q \in Queries :
        /\ qstate[q] = "err"
        /\ \E p1, p2 \in DOMAIN tasks[q] :
              tasks[q][p1] = "failed" /\ tasks[q][p2] = "aborted"

(***************************************************************************)
(* C15.  A query has sent a request for a page >= 2 only if it has         *)
(* received and decoded its page-1 response; while page 1 is awaited, and  *)
(* for ever after the page-1 fetch has failed, the request of page 1 is    *)
(* the only one the query has sent.                                        *)
(***************************************************************************)
C15_Page1First ==
    \A q \in Queries :
        /\ (\E i \in DOMAIN requests[q] : requests[q][i] >= 2) => first_total[q] >= 0
        /\ qstate[q] = "page1" => requests[q] = <<SearchUrl(1)>>
        /\ first_total[q] < 0 /\ qstate[q] \in {"err", "dropped"}
              => requests[q] = <<SearchUrl(1)>>

\* The page-1 fetch of one query has failed after the other query had sent
\* its requests for pages 2 and 3.
C15_Witness ==
    \E q \in Queries :
        /\ qstate[q] = "err"
        /\ first_total[q] < 0
        /\ requests[q] = <<SearchUrl(1)>>
        /\ Len(requests[Other(q)]) = 3

(***************************************************************************)
(* C16.  Original statement: the items of pages 2..N are merged only after *)
(* the whole batch has completed: no step appends items to the accumulator *)
(* of a query in its join loop while a fetch of that query is in flight.   *)
(***************************************************************************)
C16_MergeAfterBatch ==
    [][\A q \in Queries :
          (qstate[q] = "paging" /\ Len(all'[q]) > Len(all[q]))
              => \A p \in DOMAIN tasks'[q] : tasks'[q][p] # "inflight"]_vars

(***************************************************************************)
(* C16, amended.  The items of a page >= 2 are appended by the step of the *)
(* calling task that joins that page's task, whether or not other fetches  *)
(* of the batch are in flight; and the accumulator changes in no other     *)
(* way: every change is the append of the items one response delivered,    *)
(* by the step that receives page 1 or joins one task, or the drop of the  *)
(* accumulator on failure.                                                 *)
(***************************************************************************)
C16_MergeAtJoin ==
    [][\A q \in Queries :
          LET joined_now == {p \in DOMAIN tasks[q] :
                                tasks[q][p] = "inflight" /\ tasks'[q][p] = "joined"}
              page1_now == first_total[q] < 0 /\ first_total'[q] >= 0
              appended == SubSeq(all'[q], Len(all[q]) + 1, Len(all'[q]))
          IN  /\ (joined_now # {} \/ page1_now)
                    => /\ Cardinality(joined_now) + (IF page1_now THEN 1 ELSE 0) = 1
                       /\ Len(all'[q]) >= Len(all[q])
                       /\ SubSeq(all'[q], 1, Len(all[q])) = all[q]
                       /\ served'[q] = Delivered(served[q], appended)
              /\ all'[q] # all[q]
                    => \/ all'[q] = <<>>
                       \/ joined_now # {}
                       \/ page1_now]_vars

\* A query holds the item of page 1 and the item of one joined page while
\* another of its page fetches is in flight.
C16_Witness ==
    \E q \in Queries :
        /\ qstate[q] = "paging"
        /\ Len(all[q]) = 2
        /\ \E p1, p2 \in DOMAIN tasks[q] :
              tasks[q][p1] = "joined" /\ tasks[q][p2] = "inflight"

(***************************************************************************)
(* C17.  Original statement: when a query has failed, the page requests of *)
(* the other query are not cancelled: no task of the other query is ever   *)
(* aborted.                                                                *)
(***************************************************************************)
C17_OtherNotCancelled ==
    \A q \in Queries :
        qstate[q] = "err" =>
            \A p \in DOMAIN tasks[Other(q)] : tasks[Other(q)][p] # "aborted"

(***************************************************************************)
(* C17, amended.  When a query has failed, the other query is either       *)
(* already Ok or has been dropped with it: none of its page tasks is in    *)
(* flight (those that were have been aborted), and a dropped query holds   *)
(* no items and has recorded no error of its own.                          *)
(***************************************************************************)
C17_OtherCancelled ==
    \A q \in Queries :
        qstate[q] = "err" =>
            /\ qstate[Other(q)] \in {"ok", "dropped"}
            /\ \A p \in DOMAIN tasks[Other(q)] :
                  tasks[Other(q)][p] \in {"joined", "aborted"}
            /\ qstate[Other(q)] = "dropped" =>
                  /\ all[Other(q)] = <<>>
                  /\ err[Other(q)] = "none"
                  /\ first_total[Other(q)] >= 0 =>
                        \E p \in DOMAIN tasks[Other(q)] : tasks[Other(q)][p] = "aborted"

\* A query has failed while the other had joined one page and was awaiting
\* another: the other query is dropped and its pending task aborted.
C17_Witness ==
    \E q \in Queries :
        /\ qstate[q] = "err"
        /\ qstate[Other(q)] = "dropped"
        /\ \E p1, p2 \in DOMAIN tasks[Other(q)] :
              tasks[Other(q)][p1] = "joined" /\ tasks[Other(q)][p2] = "aborted"

\* The StatsMap determined by the items delivered, whatever their order.
StatsOf(count) ==
    [R \in {x \in Repos : count["approved"][x] + count["not_approved"][x] > 0} |->
        PRStatsNewWith(count["approved"][R], count["not_approved"][R])]

\* The total of a StatsMap.
TotalOf(m) ==
    PRStatsNewWith(SumOver(DOMAIN m, [k \in DOMAIN m |-> m[k].approved]),
                   SumOver(DOMAIN m, [k \in DOMAIN m |-> m[k].not_approved]))

\* The report of a StatsMap: its lines in ascending order of repository,
\* then the Total line.
ReportOf(m) ==
    LET keys == SortedByKey(m)
    IN  [i \in 1..(Len(keys) + 1) |->
            IF i <= Len(keys) THEN Line("repo", keys[i], m[keys[i]])
            ELSE Line("Total", <<>>, TotalOf(m))]

(***************************************************************************)
(* C18.  When all fetches succeed, the StatsMap returned by pr_stats and   *)
(* the report printed are determined by the items the server delivered     *)
(* alone: they are the same for every order in which the page fetches      *)
(* complete and every interleaving of the two queries.                     *)
(***************************************************************************)
C18_OrderInsensitive ==
    /\ Returned => combined = StatsOf(served)
    /\ pc = "done" => output = ReportOf(StatsOf(served))

\* A report has been printed after each query received three pages, the
\* items of the two queries having arrived in opposite orders.
C18_Witness ==
    /\ pc = "done"
    /\ all["approved"] = << <<2>>, <<1, 2>>, <<2>> >>
    /\ all["not_approved"] = << <<1, 2>>, <<2>>, <<1, 2>> >>
    /\ Len(output) = 3

(***************************************************************************)
(* C19.  Once page 1 of a query is decoded, the requests of the query are  *)
(* those of pages 1..num_pages computed from page 1's total_count, for as  *)
(* long as the query runs and after it has returned Ok; and a step that    *)
(* joins a later page whose decoded total_count differs from page 1's      *)
(* sends no request, aborts no task, raises no error and keeps page 1's    *)
(* total_count: a step that takes a task out of flight either does just    *)
(* that, or is not the arrival of such a page.                             *)
(***************************************************************************)
C19_Page1Authoritative ==
    /\ [](\A q \in Queries :
            PastPage1(q) =>
                /\ requests[q] =
                      <<SearchUrl(1)>> \o PageRequests(NumPages(first_total[q]))
                /\ DOMAIN tasks[q] = 2..NumPages(first_total[q])
                /\ \A p \in DOMAIN tasks[q] : tasks[q][p] \in {"inflight", "joined"}
                /\ err[q] = "none")
    /\ [][\A q \in Queries : \A p \in DOMAIN tasks[q] :
            (tasks[q][p] = "inflight" /\ tasks'[q][p] # "inflight")
                => \/ /\ requests' = requests
                      /\ first_total' = first_total
                      /\ tasks'[q] = [tasks[q] EXCEPT ![p] = "joined"]
                      /\ err' = err
                      /\ pc' = pc
                      /\ failure' = failure
                   \/ \A st \in Statuses : \A t \in TotalCounts \ {first_total[q]} :
                         ~JoinNext(q, p, Page(st, t,
                                      SubSeq(all'[q], Len(all[q]) + 1, Len(all'[q]))))]_vars

\* A query whose page 1 declared 250 has joined a page declaring another
\* total_count: it still awaits its third page and has sent three requests.
C19_Witness ==
    \E q \in Queries :
        /\ qstate[q] = "paging"
        /\ first_total[q] = 250
        /\ resp_total[q] \in {0, 101}
        /\ Len(requests[q]) = 3
        /\ \E p \in DOMAIN tasks[q] : tasks[q][p] = "inflight"

(***************************************************************************)
(* C20.  Every entry of the StatsMap returned by pr_stats has              *)
(* approved + not_approved >= 1, and so every repository line printed      *)
(* shows a total >= 1 and a rate that is a number.                         *)
(***************************************************************************)
C20_NoZeroZeroEntry ==
    /\ Returned =>
          \A k \in DOMAIN combined :
              combined[k].approved + combined[k].not_approved >= 1
    /\ \A i \in RepoLines :
          output[i].text.total >= 1 /\ ~output[i].text.nan

\* pr_stats has returned one entry without approved items and one without
\* not-approved items, and both lines are printed.
C20_Witness ==
    /\ Returned
    /\ DOMAIN combined = Repos
    /\ combined[<<2>>] = PRStatsNewWith(0, 1)
    /\ combined[<<1, 2>>] = PRStatsNewWith(2, 0)
    /\ Cardinality(RepoLines) = 2

====
